---- MODULE Spec2Model ----
(***************************************************************************)
(* A model of the CoH2 team balancer (src/main.py): the rating table of    *)
(* PlayerRepository, the current teams of TeamBalancer, the greedy         *)
(* partition of generate_teams / _find_closest_combination and the rating  *)
(* adjustment of update_match_results, driven by the two GUI handlers      *)
(* 'Generate Teams' and 'Confirm Results' of BalancerGUI.run.              *)
(*                                                                         *)
(* Ratings are Python floats in the program.  The model computes with      *)
(* exact rationals <<numerator, denominator>>, so it describes the         *)
(* arithmetic the code writes down and not the rounding of IEEE doubles.   *)
(* The random map and side draw of the Generate handler only print, and    *)
(* the GUI's own PlayerRepository (replaced by 'Refresh Players') only     *)
(* feeds the combo lists: TeamBalancer keeps the repository it was built   *)
(* with.  Neither is part of the state below.                              *)
(***************************************************************************)
EXTENDS Integers, Sequences, FiniteSets, TLC

\* ------------------------------------------------------------------ bounds
\* Spec: sizes of the rating table and of the selection, and the number of
\* results confirmed in a run.
MaxPlayers == 2
MaxCombos == 2
MaxCalls == 2
\* SpecPartition: sizes of the rating table and of the selection.
PartPlayers == 4
PartCombos == 4

NamePool == <<"a", "b", "c", "d", "e", "f", "g", "h">>
UnknownName == "z"
Blank == ""
InitRatings == {-3, 1, 3}

\* --------------------------------------------------------------- rationals
RECURSIVE GCD(_, _)
GCD(a, b) == IF b = 0 THEN a ELSE GCD(b, a % b)

IAbs(n) == IF n < 0 THEN -n ELSE n

\* n/d in lowest terms with a positive denominator (d # 0).
Rat(n, d) ==
  LET g == GCD(IAbs(n), IAbs(d))
      s == IF d < 0 THEN -1 ELSE 1
  IN  <<(s * n) \div g, (s * d) \div g>>

RInt(n) == <<n, 1>>
RZero == <<0, 1>>
RNeg(x) == <<-x[1], x[2]>>
RAdd(x, y) ==
  LET g == GCD(x[2], y[2])
  IN  Rat(x[1] * (y[2] \div g) + y[1] * (x[2] \div g), (x[2] \div g) * y[2])
RSub(x, y) == RAdd(x, RNeg(y))
RMul(x, y) ==
  LET a == Rat(x[1], y[2])
      b == Rat(y[1], x[2])
  IN  <<a[1] * b[1], a[2] * b[2]>>
RDiv(x, y) == RMul(x, Rat(y[2], y[1]))
RLeq(x, y) == x[1] * y[2] <= y[1] * x[2]
RLess(x, y) == x[1] * y[2] < y[1] * x[2]
RAbs(x) == <<IAbs(x[1]), x[2]>>
RMax(x, y) == IF RLeq(y, x) THEN x ELSE y
RMin(x, y) == IF RLeq(x, y) THEN x ELSE y

\* ------------------------------------------------------------- dictionaries
\* A Python dict is a function from its keys to its values; the order of the
\* keys is kept separately where the code depends on it.
EmptyDict == [k \in {} |-> RZero]
Put(dict, key, value) ==
  [k \in DOMAIN dict \cup {key} |-> IF k = key THEN value ELSE dict[k]]
Range(seq) == {seq[i] : i \in DOMAIN seq}

\* sum(dict.values())
RECURSIVE SumOver(_, _)
SumOver(dict, keys) ==
  IF keys = {} THEN RZero
  ELSE LET k == CHOOSE x \in keys : TRUE
       IN  RAdd(dict[k], SumOver(dict, keys \ {k}))
SumValues(dict) == SumOver(dict, DOMAIN dict)

\* max(list) and min(list) of a non-empty list of ratings
RECURSIVE MaxOver(_, _)
MaxOver(dict, keys) ==
  LET k == CHOOSE x \in keys : TRUE
  IN  IF keys = {k} THEN dict[k] ELSE RMax(dict[k], MaxOver(dict, keys \ {k}))
RECURSIVE MinOver(_, _)
MinOver(dict, keys) ==
  LET k == CHOOSE x \in keys : TRUE
  IN  IF keys = {k} THEN dict[k] ELSE RMin(dict[k], MinOver(dict, keys \ {k}))

\* ------------------------------------------------------------------- state
VARIABLES
  players,    \* TeamBalancer.player_repository.players
  team1,      \* TeamBalancer.team1: name -> rating at partition time
  team2,      \* TeamBalancer.team2
  team_diff,  \* TeamBalancer.team_diff
  saved,      \* the table last written by save_players (a timestamped file)
  lastSel,    \* history: the names passed to the last generate_teams call
  loop,       \* history: the loop states of the last _find_closest_combination
  hist        \* history: one record per update_match_results call

vars == <<players, team1, team2, team_diff, saved, lastSel, loop, hist>>

\* ---------------------------------------------------------------- partition
\* sorted(players.items(), key=rating, reverse=True): a stable sort, so equal
\* ratings keep the insertion order of the dict.  Insertion sort over the keys.
RECURSIVE InsertSorted(_, _, _)
InsertSorted(sorted, name, ratings) ==
  IF sorted = <<>> THEN <<name>>
  ELSE IF RLess(ratings[Head(sorted)], ratings[name])
       THEN <<name>> \o sorted
       ELSE <<Head(sorted)>> \o InsertSorted(Tail(sorted), name, ratings)

RECURSIVE SortInto(_, _, _)
SortInto(sorted, order, ratings) ==
  IF order = <<>> THEN sorted
  ELSE SortInto(InsertSorted(sorted, Head(order), ratings), Tail(order), ratings)
SortDescending(order, ratings) == SortInto(<<>>, order, ratings)

LoopStart == [team1 |-> EmptyDict, team2 |-> EmptyDict, sum1 |-> RZero, sum2 |-> RZero]

ToTeam1(s, player, score) ==
  [s EXCEPT !.team1 = Put(s.team1, player, score), !.sum1 = RAdd(s.sum1, score)]
ToTeam2(s, player, score) ==
  [s EXCEPT !.team2 = Put(s.team2, player, score), !.sum2 = RAdd(s.sum2, score)]

\* A loop body that ignores the team sizes and always feeds the smaller sum.
AssignBySumOnly(s, player, score) ==
  IF RLeq(s.sum1, s.sum2) THEN ToTeam1(s, player, score) ELSE ToTeam2(s, player, score)

\* A loop body whose tie-break feeds the larger sum.
AssignToLargerSum(s, player, score) ==
  IF Cardinality(DOMAIN s.team1) < Cardinality(DOMAIN s.team2)
  THEN ToTeam1(s, player, score)
  ELSE IF Cardinality(DOMAIN s.team2) < Cardinality(DOMAIN s.team1)
       THEN ToTeam2(s, player, score)
       ELSE IF RLeq(s.sum2, s.sum1)
            THEN ToTeam1(s, player, score)
            ELSE ToTeam2(s, player, score)

\* One iteration of the loop of _find_closest_combination.
AssignPlayer(s, player, score) ==
  IF Cardinality(DOMAIN s.team1) < Cardinality(DOMAIN s.team2)
  THEN ToTeam1(s, player, score)
  ELSE IF Cardinality(DOMAIN s.team2) < Cardinality(DOMAIN s.team1)
       THEN ToTeam2(s, player, score)
       ELSE IF RLeq(s.sum1, s.sum2)
            THEN ToTeam1(s, player, score)
            ELSE ToTeam2(s, player, score)

\* The loop of _find_closest_combination from state s over the players left;
\* trace collects the loop states, the initial one first.
RECURSIVE LoopFrom(_, _, _, _)
LoopFrom(trace, s, left, ratings) ==
  IF left = <<>> THEN trace
  ELSE LoopFrom(Append(trace, AssignPlayer(s, Head(left), ratings[Head(left)])),
                AssignPlayer(s, Head(left), ratings[Head(left)]),
                Tail(left), ratings)
LoopStates(sorted_players, ratings) ==
  LoopFrom(<<LoopStart>>, LoopStart, sorted_players, ratings)

\* The keys of player_ratings in insertion order: the selected names that are
\* in the table, each at its first occurrence.
RECURSIVE KnownFrom(_, _, _)
KnownFrom(keys, selected_players, table) ==
  IF selected_players = <<>> THEN keys
  ELSE KnownFrom(IF Head(selected_players) \in DOMAIN table
                      /\ Head(selected_players) \notin Range(keys)
                 THEN Append(keys, Head(selected_players))
                 ELSE keys,
                 Tail(selected_players), table)
KnownInOrder(selected_players, table) == KnownFrom(<<>>, selected_players, table)

find_closest_combination(order, ratings) ==
  LoopStates(SortDescending(order, ratings), ratings)

\* [values[key] for key in self.combo_keys if values[key]]
RECURSIVE NonBlank(_)
NonBlank(values) ==
  IF values = <<>> THEN <<>>
  ELSE IF Head(values) = Blank THEN NonBlank(Tail(values))
       ELSE <<Head(values)>> \o NonBlank(Tail(values))

generate_teams(selected_players) ==
  /\ loop' = find_closest_combination(KnownInOrder(selected_players, players), players)
  /\ team1' = loop'[Len(loop')].team1
  /\ team2' = loop'[Len(loop')].team2
  /\ team_diff' = RAbs(RSub(loop'[Len(loop')].sum1, loop'[Len(loop')].sum2))
  /\ lastSel' = [names |-> Range(selected_players),
                  duplicate_free |->
                    Cardinality(Range(selected_players)) = Len(selected_players)]
  /\ UNCHANGED <<players, saved, hist>>

\* The 'Generate Teams' handler on the combo contents `values`.
GenerateTeams(values) ==
  LET selected_players == NonBlank(values)
  IN  IF Len(selected_players) < 2
      THEN UNCHANGED vars
      ELSE generate_teams(selected_players)

\* --------------------------------------------------------------- adjustment
\* The point calculation constants of TeamBalancer.__init__.
points_constant == Rat(2, 10)
points_per_500 == Rat(2, 10)
diff_amortization == Rat(1, 10)
min_gained_points == Rat(1, 10)

\* A point calculation without the minimum point change.
CalculatePointsUnclamped(diff, won, points_scored, quotient) ==
  LET base_points ==
        RMul(RAdd(RAdd(points_constant,
                       RMul(points_per_500, Rat(points_scored, 500))),
                  RMul(diff_amortization, diff)),
             quotient)
  IN  IF won THEN base_points ELSE RNeg(base_points)

\* A point calculation that clamps the winners only.
CalculatePointsLoserUnclamped(diff, won, points_scored, quotient) ==
  LET base_points ==
        RMul(RAdd(RAdd(points_constant,
                       RMul(points_per_500, Rat(points_scored, 500))),
                  RMul(diff_amortization, diff)),
             quotient)
  IN  IF won THEN RMax(base_points, min_gained_points) ELSE RNeg(base_points)

\* _calculate_points
calculate_points(diff, won, points_scored, quotient) ==
  LET base_points ==
        RMul(RAdd(RAdd(points_constant,
                       RMul(points_per_500, Rat(points_scored, 500))),
                  RMul(diff_amortization, diff)),
             quotient)
      signed == IF won THEN base_points ELSE RNeg(base_points)
  IN  IF won THEN RMax(signed, min_gained_points)
      ELSE RMin(signed, RNeg(min_gained_points))

\* An update that overwrites the rating with the points.
SetPlayerRating(table, player_name, points) ==
  IF player_name \in DOMAIN table
  THEN [table EXCEPT ![player_name] = points]
  ELSE table

\* PlayerRepository.update_player_rating
update_player_rating(table, player_name, points) ==
  IF player_name \in DOMAIN table
  THEN [table EXCEPT ![player_name] = RAdd(table[player_name], points)]
  ELSE table

\* The loop of _update_team_ratings over the players `names` of a team.
RECURSIVE UpdateEach(_, _, _)
UpdateEach(table, names, points) ==
  IF names = {} THEN table
  ELSE LET player == CHOOSE x \in names : TRUE
       IN  UpdateEach(update_player_rating(table, player, points),
                      names \ {player}, points)

\* An update that gives the winners' points to every player of the table.
UpdateWinnersTableWide(table, team, diff, won, points_scored, quotient) ==
  UpdateEach(table, IF won THEN DOMAIN table ELSE DOMAIN team,
             calculate_points(diff, won, points_scored, quotient))

\* _update_team_ratings
update_team_ratings(table, team, diff, won, points_scored, quotient) ==
  UpdateEach(table, DOMAIN team, calculate_points(diff, won, points_scored, quotient))

\* The rating quotient of update_match_results.
RatingQuotient(table) ==
  IF DOMAIN table # {} /\ RLess(RZero, MaxOver(table, DOMAIN table))
  THEN RDiv(MinOver(table, DOMAIN table), MaxOver(table, DOMAIN table))
  ELSE RInt(1)

\* adjusted_diff of update_match_results.
AdjustedDiff(raw_diff, winning_team) ==
  IF (RLess(RZero, raw_diff) /\ winning_team = 1)
       \/ (RLess(raw_diff, RZero) /\ winning_team = 2)
  THEN RNeg(RAbs(raw_diff))
  ELSE RAbs(raw_diff)

\* The table update_match_results leaves behind.
UpdatedTable(table, t1, t2, winning_team, points_scored) ==
  LET raw_diff == RSub(SumValues(t1), SumValues(t2))
      quotient == RatingQuotient(table)
      adjusted_diff == AdjustedDiff(raw_diff, winning_team)
  IN  IF winning_team = 1
      THEN update_team_ratings(
             update_team_ratings(table, t1, adjusted_diff, TRUE, points_scored, quotient),
             t2, adjusted_diff, FALSE, points_scored, quotient)
      ELSE update_team_ratings(
             update_team_ratings(table, t2, adjusted_diff, TRUE, points_scored, quotient),
             t1, adjusted_diff, FALSE, points_scored, quotient)

update_match_results(winning_team, points_scored) ==
  /\ players' = UpdatedTable(players, team1, team2, winning_team, points_scored)
  /\ saved' = players'
  /\ hist' = Append(hist, [winning_team |-> winning_team,
                           points_scored |-> points_scored,
                           team1 |-> team1,
                           team2 |-> team2,
                           quotient |-> RatingQuotient(players),
                           before |-> players,
                           after |-> players'])
  /\ UNCHANGED <<team1, team2, team_diff, lastSel, loop>>

\* int(text) on a text given as its characters: an optional sign and digits.
Digits == <<"0", "1", "2", "3", "4", "5", "6", "7", "8", "9">>
DigitValue(c) == (CHOOSE i \in DOMAIN Digits : Digits[i] = c) - 1
RECURSIVE DigitsValue(_)
DigitsValue(text) ==
  IF text = <<>> THEN 0
  ELSE 10 * DigitsValue(SubSeq(text, 1, Len(text) - 1)) + DigitValue(text[Len(text)])
ParseInt(text) ==
  LET signed == text # <<>> /\ Head(text) \in {"-", "+"}
      body == IF signed THEN Tail(text) ELSE text
      ok == body # <<>> /\ \A i \in DOMAIN body : body[i] \in Range(Digits)
  IN  [ok |-> ok,
       value |-> IF ~ok THEN 0
                 ELSE IF signed /\ Head(text) = "-" THEN -DigitsValue(body)
                      ELSE DigitsValue(body)]

\* The 'Confirm Results' handler on the texts of TeamPick and Points.
ConfirmResults(team_pick, points_text) ==
  LET winning_team == ParseInt(team_pick)
      points == ParseInt(points_text)
  IN  IF ~winning_team.ok \/ ~points.ok
      THEN UNCHANGED vars
      ELSE IF winning_team.value \notin {1, 2}
           THEN UNCHANGED vars
           ELSE update_match_results(winning_team.value, points.value)

\* ------------------------------------------------------------ specifications
Names(n) == {NamePool[i] : i \in 1..n}

\* The tables loaded at startup: the empty one (no data file) and the tables
\* of n players, ratings non-increasing along the names.
Tables(n) ==
  {EmptyDict} \cup
  {t \in [Names(n) -> {RInt(r) : r \in InitRatings}] :
     \A i \in 1..(n - 1) : RLeq(t[NamePool[i + 1]], t[NamePool[i]])}

ComboValues(combos, texts) == [1..combos -> texts]
TeamPickTexts == {<<"1">>, <<"2">>, <<"3">>, <<>>}
PointsTexts == {<<"0">>, <<"5", "0", "0">>, <<"-", "5", "0", "0">>, <<"a">>}

NoSelection == [names |-> {}, duplicate_free |-> TRUE]

InitWith(tables) ==
  /\ players \in tables
  /\ team1 = EmptyDict
  /\ team2 = EmptyDict
  /\ team_diff = RZero
  /\ saved = EmptyDict
  /\ lastSel = NoSelection
  /\ loop = <<>>
  /\ hist = <<>>

Init == InitWith(Tables(MaxPlayers))

\* A run of Spec is one match cycle: teams are generated (any number of
\* times) and then up to MaxCalls results are confirmed for the stored teams.
\* A combo holds a name of the table, a name that is not in it, or nothing.
Generate ==
  /\ hist = <<>>
  /\ \E values \in ComboValues(MaxCombos, Names(MaxPlayers) \cup {UnknownName, Blank}) :
       GenerateTeams(values)

Confirm ==
  /\ Len(hist) < MaxCalls
  /\ \E team_pick \in TeamPickTexts, points_text \in PointsTexts :
       ConfirmResults(team_pick, points_text)

Next == Generate \/ Confirm

Spec == Init /\ [][Next]_vars

\* The partition alone: the first call of generate_teams, on any table and
\* any contents of the combos.
InitPartition == InitWith(Tables(PartPlayers))

GenerateOnce ==
  /\ lastSel = NoSelection
  /\ \E values \in ComboValues(PartCombos, Names(PartPlayers) \cup {UnknownName, Blank}) :
       GenerateTeams(values)

NextPartition == GenerateOnce

SpecPartition == InitPartition /\ [][NextPartition]_vars

\* ------------------------------------------------------------------ claims
TeamNames == DOMAIN team1 \cup DOMAIN team2
SizeGap(t1, t2) == IAbs(Cardinality(DOMAIN t1) - Cardinality(DOMAIN t2))

\* The ratings of the players of both teams, and the imbalance of the split
\* that puts the players A on one side and the others on the other.
TeamRatings == [p \in TeamNames |-> IF p \in DOMAIN team1 THEN team1[p] ELSE team2[p]]
SplitDiff(A) ==
  RAbs(RSub(SumOver(TeamRatings, A), SumOver(TeamRatings, TeamNames \ A)))

\* Of a recorded update_match_results call h: the winners and the losers that
\* are in the table, and the change of a player's rating.
Winners(h) == DOMAIN (IF h.winning_team = 1 THEN h.team1 ELSE h.team2) \cap DOMAIN h.before
Losers(h) == DOMAIN (IF h.winning_team = 1 THEN h.team2 ELSE h.team1) \cap DOMAIN h.before
Delta(h, p) == RSub(h.after[p], h.before[p])
RawDiff(h) == RSub(SumValues(h.team1), SumValues(h.team2))

\* C1: after generate_teams on a duplicate-free selection of at least two
\* names, the two teams are disjoint and together hold exactly the selected
\* names.
C1_TeamsHoldTheSelection ==
  (lastSel.duplicate_free /\ Cardinality(lastSel.names) >= 2)
    => /\ DOMAIN team1 \cap DOMAIN team2 = {}
       /\ TeamNames = lastSel.names

\* C2: the two teams differ in size by at most one player, after every
\* iteration of the assignment loop and in the stored result.
C2_SizesBalanced ==
  /\ \A i \in DOMAIN loop : SizeGap(loop[i].team1, loop[i].team2) <= 1
  /\ SizeGap(team1, team2) <= 1

C2_Witness ==
  /\ Cardinality(DOMAIN team1) = 2
  /\ Cardinality(DOMAIN team2) = 2
  /\ \E i \in DOMAIN loop :
       Cardinality(DOMAIN loop[i].team1) < Cardinality(DOMAIN loop[i].team2)

C4_MinimumMagnitude ==
  \A i \in DOMAIN hist :
    hist[i].points_scored >= 0 =>
      /\ \A p \in Winners(hist[i]) : RLeq(min_gained_points, Delta(hist[i], p))
      /\ \A p \in Losers(hist[i]) : RLeq(Delta(hist[i], p), RNeg(min_gained_points))

C4_Witness ==
  \E i \in DOMAIN hist :
    /\ hist[i].points_scored >= 0
    /\ RLess(hist[i].quotient, RZero)
    /\ \E p \in Winners(hist[i]) : Delta(hist[i], p) = min_gained_points
    /\ \E p \in Losers(hist[i]) : Delta(hist[i], p) = RNeg(min_gained_points)

\* C5: the stored teams never consist of one player facing an empty team.
C5_NoLonePlayer == Cardinality(TeamNames) # 1

\* C6: a call of update_match_results with negative points leaves the rating
\* table as it was.
C6_NegativePointsChangeNothing ==
  \A i \in DOMAIN hist : hist[i].points_scored < 0 => hist[i].after = hist[i].before

\* C7: a call keeps the key set of the table and the rating of every player
\* who is not in the stored teams.
C7_OnlyTeamEntriesChange ==
  \A i \in DOMAIN hist :
    /\ DOMAIN hist[i].after = DOMAIN hist[i].before
    /\ \A p \in DOMAIN hist[i].before :
         p \notin (DOMAIN hist[i].team1 \cup DOMAIN hist[i].team2)
           => hist[i].after[p] = hist[i].before[p]

C7_Witness ==
  \E i \in DOMAIN hist :
    /\ \E p \in DOMAIN hist[i].before :
         p \notin (DOMAIN hist[i].team1 \cup DOMAIN hist[i].team2)
    /\ \E p \in Winners(hist[i]) \cup Losers(hist[i]) :
         hist[i].after[p] # hist[i].before[p]

\* The gain of each winner when team w wins a match with the teams, the table
\* and the points of the recorded call h.
WinnerGain(h, w) ==
  calculate_points(AdjustedDiff(RawDiff(h), w), TRUE, h.points_scored,
                   RatingQuotient(h.before))

Repeats(i) ==
  /\ i + 1 \in DOMAIN hist
  /\ hist[i + 1].team1 = hist[i].team1
  /\ hist[i + 1].team2 = hist[i].team2
  /\ hist[i + 1].winning_team = hist[i].winning_team
  /\ hist[i + 1].points_scored = hist[i].points_scored

Twice(x) == RAdd(x, x)

====
